---- MODULE Spec2Model ----
(***************************************************************************)
(* PythonSafetyMonitor (src/main.py): an ASCOM Alpaca safety monitor.      *)
(*                                                                         *)
(* Three kinds of threads share two module-level globals,                  *)
(* connected_status and is_safe_status:                                    *)
(*   - the HTTP handlers of the FastAPI app (sync handlers run on the      *)
(*     server's thread pool, several at a time),                           *)
(*   - the UDP discovery listener (start_discovery_listener),              *)
(*   - the keyboard monitor (monitor_keyboard).                            *)
(* There is no lock anywhere in the program; a single load or store of a   *)
(* global is one step, anything longer is several steps.                   *)
(***************************************************************************)
EXTENDS Integers, Sequences, FiniteSets, Bags, TLC

VARIABLES
    connected_status,   \* main.py:110
    is_safe_status,     \* main.py:111
    threads,            \* bag of HTTP handler activations between their store and their return
    exchange,           \* the last thing the program emitted: an HTTP response, a
                        \* discovery reply or a line of the keyboard monitor
    kb_pc,              \* where monitor_keyboard stands
    kb_tmp,             \* the value monitor_keyboard loaded from is_safe_status (line 552)
    kb_buf,             \* the keys typed and not yet read by getch(), oldest first
    kb_pressed,         \* history: how many keys have been typed into kb_buf
    disc_pc,            \* where start_discovery_listener stands
    faulted,            \* history: the layers in which an operation has raised so far
    clock,              \* time.time() at its last reading, in whole seconds
    safe_src,           \* history: the store that wrote the current is_safe_status
    conn_src            \* history: the store that wrote the current connected_status

vars == <<connected_status, is_safe_status, threads, exchange,
          kb_pc, kb_tmp, kb_buf, kb_pressed, disc_pc, faulted,
          clock, safe_src, conn_src>>

\* What the HTTP handlers never touch.
kb_input == <<kb_buf, kb_pressed>>
listener == <<disc_pc, faulted>>

(***************************************************************************)
(* Bounds of the model.                                                    *)
(***************************************************************************)
\* HTTP handlers that may be between their store and their return at once.
MaxInFlight == 2
\* Seconds of wall-clock time the model lets pass.
MaxClock == 1
\* Keys typed at the console in one run of the keyboard model.
MaxPressed == 3

(***************************************************************************)
(* Integers.  Python integers are unbounded and the validation bound       *)
(* 4294967295 does not fit the model checker's integers, so an integer n   *)
(* is held as two limbs, n = hi * 2^16 + lo with 0 <= lo < 2^16 (hi is     *)
(* negative for a negative n), and compared limb by limb.                  *)
(***************************************************************************)
Num(h, l) == [kind |-> "int", hi |-> h, lo |-> l]

\* A parameter the request does not carry.
Missing == [kind |-> "missing", hi |-> 0, lo |-> 0]

MinusOne   == Num(-1, 65535)
Zero       == Num(0, 0)
One        == Num(0, 1)
MaxId      == Num(65535, 65535)     \* 4294967295
MaxIdPlus1 == Num(65536, 0)         \* 4294967296

NumLe(a, b) == a.hi < b.hi \/ (a.hi = b.hi /\ a.lo <= b.lo)

\* The values a client may send as ClientID or ClientTransactionID: the
\* boundary values of the validation and their neighbours.
IdSamples == {Missing, MinusOne, Zero, One, MaxId, MaxIdPlus1}

\* The values the clients of the concurrent system send.
ClientIds == {Zero, One}
ManagementIds == {Missing, One}
TransactionIds == {Missing, One, MaxId}

(***************************************************************************)
(* Configuration (main.py:38-46, 99-107): the defaults, fixed at startup.  *)
(***************************************************************************)
SUPPORTED_ACTIONS == <<"Action1", "Action2", "Action3">>
alpaca_port   == 11111
DEVICE_NAME   == "CloudWatcher"
DEVICE_TYPE   == "safetymonitor"
DEVICE_NUMBER == 0
\* str.lower() of the configured device name.
Lower(s) == IF s = "CloudWatcher" THEN "cloudwatcher" ELSE s
UNIQUE_ID     == Lower(DEVICE_NAME) \o "." \o DEVICE_TYPE \o ".001"
MANUFACTURER  == "Julian Brendlin"
DRIVER_VERSION == "1.0.0"
LOCATION      == "My Observatory"

(***************************************************************************)
(* Parameter validation, done by the framework before a handler runs.      *)
(***************************************************************************)
\* The validation with its lower bound off by one (ge=0).
ValidIdFromZero(p) == p.kind = "int" /\ NumLe(Zero, p) /\ NumLe(p, MaxId)

\* Query(..., ge=1, le=4294967295) / Form(..., ge=1, le=4294967295)
ValidId(p) == p.kind = "int" /\ NumLe(One, p) /\ NumLe(p, MaxId)

\* Query(0): an omitted ClientTransactionID is 0, any integer is taken as is.
Default0(p) == IF p.kind = "missing" THEN Zero ELSE p

\* get_connected, connect_to_device and set_safety_status run only when both
\* identifiers pass.
Accepts(cid, ctid) == ValidId(cid) /\ ValidId(ctid)

\* What the framework answers when a parameter fails: HTTP 422 with the list
\* of failures; the handler is not called.
ValidationError == [detail |-> "validation error"]

(***************************************************************************)
(* Response bodies.                                                        *)
(***************************************************************************)
\* A response that reports the other flag.
BoolResponseOfConnected(value, ctid, stid) ==
    [Value |-> connected_status, ClientTransactionID |-> ctid,
     ServerTransactionID |-> stid]

\* class BoolResponse: the three declared fields and nothing else.
BoolResponse(value, ctid, stid) ==
    [Value |-> value, ClientTransactionID |-> ctid, ServerTransactionID |-> stid]

\* The dict get_connected returns.
ConnectedBody(value, ctid, stid) ==
    [Value |-> value, ClientTransactionID |-> ctid, ServerTransactionID |-> stid,
     ErrorNumber |-> 0, ErrorMessage |-> ""]

\* The same dict with the transaction id of the management endpoints.
PutBodyNoEcho(ctid, stid) ==
    [ClientTransactionID |-> Zero, ServerTransactionID |-> stid,
     ErrorNumber |-> 0, ErrorMessage |-> ""]

\* The dict connect_to_device and set_safety_status return.
PutBody(ctid, stid) ==
    [ClientTransactionID |-> ctid, ServerTransactionID |-> stid,
     ErrorNumber |-> 0, ErrorMessage |-> ""]

\* The dict get_description, get_driver_info, get_driver_version,
\* get_device_name and get_supported_actions return.
ValueBody(value, ctid, stid) ==
    [Value |-> value, ClientTransactionID |-> ctid, ServerTransactionID |-> stid]

\* The value each static read computes.
StaticValue(op) ==
    CASE op = "description"      -> DEVICE_NAME \o " SafetyMonitor from " \o MANUFACTURER
      [] op = "driverinfo"       -> DEVICE_NAME \o " v" \o DRIVER_VERSION \o " by " \o MANUFACTURER
      [] op = "driverversion"    -> DRIVER_VERSION
      [] op = "name"             -> DEVICE_NAME
      [] op = "supportedactions" -> SUPPORTED_ACTIONS

StaticOps == {"description", "driverinfo", "driverversion", "name", "supportedactions"}

\* Management answers that follow the connection flag.
ManagementBodyWhenConnected(op) ==
    CASE op = "apiversions" ->
            [Value |-> IF connected_status THEN <<1, 2>> ELSE <<1>>,
             ClientTransactionID |-> Zero, ServerTransactionID |-> 1]
      [] op = "mgmt_description" ->
            [Value |-> [DeviceName |-> DEVICE_NAME, DeviceType |-> DEVICE_TYPE,
                        DeviceNumber |-> IF connected_status THEN 1 ELSE DEVICE_NUMBER,
                        UniqueID |-> UNIQUE_ID,
                        Manufacturer |-> MANUFACTURER, DriverVersion |-> DRIVER_VERSION,
                        Location |-> LOCATION],
             ClientTransactionID |-> Zero, ServerTransactionID |-> 2]
      [] op = "configureddevices" ->
            [Value |-> IF connected_status
                         THEN <<>>
                         ELSE <<[DeviceName |-> DEVICE_NAME, DeviceType |-> DEVICE_TYPE,
                                 DeviceNumber |-> DEVICE_NUMBER, UniqueID |-> UNIQUE_ID]>>,
             ClientTransactionID |-> Zero, ServerTransactionID |-> 3]

\* The dicts the three management endpoints return.
ManagementBody(op) ==
    CASE op = "apiversions" ->
            [Value |-> <<1>>, ClientTransactionID |-> Zero, ServerTransactionID |-> 1]
      [] op = "mgmt_description" ->
            [Value |-> [DeviceName |-> DEVICE_NAME, DeviceType |-> DEVICE_TYPE,
                        DeviceNumber |-> DEVICE_NUMBER, UniqueID |-> UNIQUE_ID,
                        Manufacturer |-> MANUFACTURER, DriverVersion |-> DRIVER_VERSION,
                        Location |-> LOCATION],
             ClientTransactionID |-> Zero, ServerTransactionID |-> 2]
      [] op = "configureddevices" ->
            [Value |-> <<[DeviceName |-> DEVICE_NAME, DeviceType |-> DEVICE_TYPE,
                          DeviceNumber |-> DEVICE_NUMBER, UniqueID |-> UNIQUE_ID]>>,
             ClientTransactionID |-> Zero, ServerTransactionID |-> 3]

ManagementOps == {"apiversions", "mgmt_description", "configureddevices"}

\* A reply that leaks the safety flag into the device number.
DiscoveryResponseWithState ==
    [AlpacaPort |-> alpaca_port, Manufacturer |-> MANUFACTURER,
     ManufacturerVersion |-> DRIVER_VERSION, DeviceName |-> DEVICE_NAME,
     DeviceType |-> DEVICE_TYPE,
     DeviceNumber |-> IF is_safe_status THEN DEVICE_NUMBER + 1 ELSE DEVICE_NUMBER,
     UniqueID |-> UNIQUE_ID]

\* The reply start_discovery_listener builds for every datagram.
DiscoveryResponse ==
    [AlpacaPort |-> alpaca_port, Manufacturer |-> MANUFACTURER,
     ManufacturerVersion |-> DRIVER_VERSION, DeviceName |-> DEVICE_NAME,
     DeviceType |-> DEVICE_TYPE, DeviceNumber |-> DEVICE_NUMBER,
     UniqueID |-> UNIQUE_ID]

\* "SAFE" if is_safe_status else "UNSAFE"
StatusText(b) == IF b THEN "SAFE" ELSE "UNSAFE"
\* "CONNECTED" if connected_status else "DISCONNECTED"
ConnectionText(b) == IF b THEN "CONNECTED" ELSE "DISCONNECTED"

\* start_time = time.time(): the second the process started in.
start_time == 1700000000

\* int(time.time()): the clock is read; it never runs backwards and may have
\* advanced since its last reading.
Readings == {t \in {clock, clock + 1} : t <= start_time + MaxClock}

(***************************************************************************)
(* The state after module import and main(): both flags False, no request  *)
(* in progress, the keyboard banner printed, both daemon threads looping.  *)
(***************************************************************************)
\* Flags that start set.
InitialFlagSet == TRUE

\* connected_status = False, is_safe_status = False
InitialFlag == FALSE

NoExchange == [op |-> "none", cid |-> Missing, ctid |-> Missing, peer |-> "-",
               status |-> 0, body |-> [none |-> TRUE], seen |-> [by |-> "-", arg |-> FALSE]]

Init ==
    /\ connected_status = InitialFlag
    /\ is_safe_status = InitialFlag
    /\ threads = EmptyBag
    /\ exchange = NoExchange
    /\ kb_pc = "poll"
    /\ kb_tmp = FALSE
    /\ kb_buf = <<>>
    /\ kb_pressed = 0
    /\ disc_pc = "recv"
    /\ faulted = {}
    /\ clock = start_time
    /\ safe_src = [by |-> "init", arg |-> FALSE]
    /\ conn_src = [by |-> "init", arg |-> FALSE]

\* An HTTP exchange: the request's operation and identifiers, the status and
\* body answered, and (history) the store whose value the handler read.
Http(op, cid, ctid, status, body, seen) ==
    [op |-> op, cid |-> cid, ctid |-> ctid, peer |-> "http",
     status |-> status, body |-> body, seen |-> seen]

NoStore == [by |-> "-", arg |-> FALSE]

\* The exchange of a handler that prints a status line before it returns.
HttpPrint(op, cid, ctid, status, body, text) ==
    [op |-> op, cid |-> cid, ctid |-> ctid, peer |-> "http",
     status |-> status, body |-> body, seen |-> NoStore, printed |-> text]

\* A handler activation that has stored its flag and not yet returned: the
\* identifiers of its request.  Its Connected or IsSafe argument is not read
\* again after the store.
Thread(op, cid, ctid) == [op |-> op, cid |-> cid, ctid |-> ctid]

\* A rejection that comes after the handler's store.
RejectedAfterStore(op, cid, ctid) ==
    /\ ~Accepts(cid, ctid)
    /\ exchange' = Http(op, cid, ctid, 422, ValidationError, NoStore)
    /\ connected_status' = (IF op = "setconnected" THEN TRUE ELSE connected_status)
    /\ is_safe_status' = (IF op = "setissafe" THEN TRUE ELSE is_safe_status)
    /\ UNCHANGED <<kb_input, listener, threads, kb_pc, kb_tmp, clock, safe_src, conn_src>>

Rejected(op, cid, ctid) ==
    /\ ~Accepts(cid, ctid)
    /\ exchange' = Http(op, cid, ctid, 422, ValidationError, NoStore)
    /\ UNCHANGED <<kb_input, listener, connected_status, is_safe_status, threads,
                   kb_pc, kb_tmp, clock, safe_src, conn_src>>

(***************************************************************************)
(* GET .../issafe                                                          *)
(***************************************************************************)
\* An IsSafe that answers only while the device is connected.
get_safety_status_gated(ctid) ==
    \E t \in Readings :
        /\ exchange' = Http("issafe", Missing, ctid, 200,
                            IF connected_status
                              THEN BoolResponse(is_safe_status, Default0(ctid), t)
                              ELSE [Value |-> FALSE, ClientTransactionID |-> Default0(ctid),
                                    ServerTransactionID |-> t, ErrorNumber |-> 1031,
                                    ErrorMessage |-> "Not connected"],
                            safe_src)
        /\ clock' = t
        /\ UNCHANGED <<kb_input, listener, connected_status, is_safe_status, threads,
                       kb_pc, kb_tmp, safe_src, conn_src>>

get_safety_status(ctid) ==
    \E t \in Readings :
        /\ exchange' = Http("issafe", Missing, ctid, 200,
                            BoolResponse(is_safe_status, Default0(ctid), t), safe_src)
        /\ clock' = t
        /\ UNCHANGED <<kb_input, listener, connected_status, is_safe_status, threads,
                       kb_pc, kb_tmp, safe_src, conn_src>>

(***************************************************************************)
(* GET .../connected                                                       *)
(***************************************************************************)
get_connected(cid, ctid) ==
    \/ Rejected("connected", cid, ctid)
    \/ /\ Accepts(cid, ctid)
       /\ \E t \in Readings :
            /\ exchange' = Http("connected", cid, ctid, 200,
                                ConnectedBody(connected_status, ctid, t), conn_src)
            /\ clock' = t
       /\ UNCHANGED <<kb_input, listener, connected_status, is_safe_status, threads,
                      kb_pc, kb_tmp, safe_src, conn_src>>

(***************************************************************************)
(* PUT .../connected: the store (line 208), then the load for the printed  *)
(* line (line 210), the print and the return.                              *)
(***************************************************************************)
\* A store of the opposite value.
StoreConnectedNegated(Connected) == ~Connected

\* connected_status = Connected
StoreConnected(Connected) == Connected

connect_to_device(Connected, cid, ctid) ==
    \/ Rejected("setconnected", cid, ctid)
    \/ /\ Accepts(cid, ctid)
       /\ BagCardinality(threads) < MaxInFlight
       /\ connected_status' = StoreConnected(Connected)
       /\ conn_src' = [by |-> "api", arg |-> Connected]
       /\ threads' = threads (+) SetToBag({Thread("setconnected", cid, ctid)})
       /\ UNCHANGED <<kb_input, listener, is_safe_status, exchange, kb_pc, kb_tmp, clock, safe_src>>

connect_to_device_return(th) ==
    /\ th.op = "setconnected"
    /\ \E t \in Readings :
         /\ exchange' = HttpPrint("setconnected", th.cid, th.ctid, 200, PutBody(th.ctid, t),
                                  ConnectionText(connected_status))
         /\ clock' = t
    /\ threads' = threads (-) SetToBag({th})
    /\ UNCHANGED <<kb_input, listener, connected_status, is_safe_status, kb_pc, kb_tmp, safe_src, conn_src>>

(***************************************************************************)
(* PUT .../setissafe: the store (line 344), then the load for the printed  *)
(* line (line 346), the print and the return.                              *)
(***************************************************************************)
\* A store that ignores its argument.
StoreIsSafeAlways(IsSafe) == TRUE

\* is_safe_status = IsSafe
StoreIsSafe(IsSafe) == IsSafe

set_safety_status(IsSafe, cid, ctid) ==
    \/ Rejected("setissafe", cid, ctid)
    \/ /\ Accepts(cid, ctid)
       /\ BagCardinality(threads) < MaxInFlight
       /\ is_safe_status' = StoreIsSafe(IsSafe)
       /\ safe_src' = [by |-> "api", arg |-> IsSafe]
       /\ threads' = threads (+) SetToBag({Thread("setissafe", cid, ctid)})
       /\ UNCHANGED <<kb_input, listener, connected_status, exchange, kb_pc, kb_tmp, clock, conn_src>>

set_safety_status_return(th) ==
    /\ th.op = "setissafe"
    /\ \E t \in Readings :
         /\ exchange' = HttpPrint("setissafe", th.cid, th.ctid, 200, PutBody(th.ctid, t),
                                  StatusText(is_safe_status))
         /\ clock' = t
    /\ threads' = threads (-) SetToBag({th})
    /\ UNCHANGED <<kb_input, listener, connected_status, is_safe_status, kb_pc, kb_tmp, safe_src, conn_src>>

(***************************************************************************)
(* generic_exception_handler: the print of connect_to_device (line 211) or *)
(* of set_safety_status (line 347) raises after the store; the handler     *)
(* registered for Exception builds an ErrorResponse and returns it.        *)
(***************************************************************************)
\* ErrorResponse(ClientTransactionID=0, ServerTransactionID=int(time.time()),
\*               ErrorNumber=1, ErrorMessage=str(exc))
ErrorResponse(stid, msg) ==
    [ClientTransactionID |-> Zero, ServerTransactionID |-> stid,
     ErrorNumber |-> 1, ErrorMessage |-> msg]

\* The body of the server's own plain-text answer to a failed request.
InternalServerError == [text |-> "Internal Server Error"]

\* The handler returns a pydantic model, not a response object: the server
\* either serialises it as JSON or, unable to send it, answers with its own
\* bare HTTP 500.
Deliveries == {"json", "plain"}

generic_exception_handler(th, sent) ==
    /\ \E t \in Readings :
         /\ exchange' = Http(th.op, th.cid, th.ctid, 500,
                             IF sent = "json" THEN ErrorResponse(t, "I/O operation on closed file")
                                              ELSE InternalServerError,
                             NoStore)
         /\ clock' = t
    /\ threads' = threads (-) SetToBag({th})
    /\ faulted' = faulted \cup {"api"}
    /\ UNCHANGED <<kb_input, disc_pc, connected_status, is_safe_status,
                   kb_pc, kb_tmp, safe_src, conn_src>>

(***************************************************************************)
(* GET .../description, driverinfo, driverversion, name, supportedactions  *)
(***************************************************************************)
\* A read that marks the device connected.
static_read_connecting(op, ctid) ==
    \E t \in Readings :
        /\ exchange' = Http(op, Missing, ctid, 200,
                            ValueBody(StaticValue(op), Default0(ctid), t), NoStore)
        /\ clock' = t
        /\ connected_status' = TRUE
        /\ UNCHANGED <<kb_input, listener, is_safe_status, threads,
                       kb_pc, kb_tmp, safe_src, conn_src>>

static_read(op, ctid) ==
    \E t \in Readings :
        /\ exchange' = Http(op, Missing, ctid, 200,
                            ValueBody(StaticValue(op), Default0(ctid), t), NoStore)
        /\ clock' = t
        /\ UNCHANGED <<kb_input, listener, connected_status, is_safe_status, threads,
                       kb_pc, kb_tmp, safe_src, conn_src>>

(***************************************************************************)
(* GET /management/apiversions, /management/v1/description,                *)
(* /management/v1/configureddevices                                        *)
(***************************************************************************)
\* The handlers declare no parameter: a ClientTransactionID in the query string
\* is accepted and ignored.
management(op, ctid) ==
    /\ exchange' = Http(op, Missing, ctid, 200, ManagementBody(op), NoStore)
    /\ UNCHANGED <<kb_input, listener, connected_status, is_safe_status, threads,
                   kb_pc, kb_tmp, clock, safe_src, conn_src>>

(***************************************************************************)
(* start_discovery_listener: one turn of the loop, for a datagram with     *)
(* any payload from any address.                                           *)
(***************************************************************************)
Payloads == {"", "alpacadiscovery1", "{not json"}
Addrs == {"10.0.0.2:50000", "10.0.0.3:50001"}
\* What may go wrong in one turn: nothing, recvfrom raises, sendto raises.
DatagramFaults == {"none", "recv", "send"}

\* A listener that lets the exception end its thread.
AfterDiscoveryErrorEnds == "dead"

\* except Exception: logging.error(...), and the while loop goes on.
AfterDiscoveryError == "recv"

start_discovery_listener(data, addr, fault) ==
    /\ disc_pc = "recv"
    /\ exchange' = [op |-> "discovery", cid |-> Missing, ctid |-> Missing,
                    peer |-> (IF fault = "recv" THEN "-" ELSE addr),
                    status |-> 0, body |-> DiscoveryResponse, seen |-> NoStore,
                    data |-> (IF fault = "recv" THEN "" ELSE data),
                    to |-> (IF fault = "none" THEN addr ELSE "-"),
                    fault |-> fault]
    /\ disc_pc' = (IF fault = "none" THEN "recv" ELSE AfterDiscoveryError)
    /\ faulted' = (IF fault = "none" THEN faulted ELSE faulted \cup {"discovery"})
    /\ UNCHANGED <<kb_input, connected_status, is_safe_status, threads,
                   kb_pc, kb_tmp, clock, safe_src, conn_src>>

(***************************************************************************)
(* monitor_keyboard: kbhit() and getch() (lines 548-549), then for 's' the *)
(* load of is_safe_status, the store of its negation (line 552), the load  *)
(* for the printed line (line 553) and the print.                          *)
(***************************************************************************)
\* Bytes getch() may return; 0xE0 is the prefix of an arrow or function key.
Keys == {"s", "S", "q", "x", "0xE0"}

\* .decode('utf-8').lower(); "raise" where decode raises UnicodeDecodeError.
DecodeLower(k) ==
    CASE k = "S" -> "s"
      [] k = "0xE0" -> "raise"
      [] OTHER -> k

\* A toggle that stores back what it loaded.
ToggleValueKept(v) == v

\* not is_safe_status
ToggleValue(v) == ~v

\* A line monitor_keyboard prints.
KeyLine(op, text) ==
    [op |-> op, cid |-> Missing, ctid |-> Missing, peer |-> "console",
     status |-> 0, body |-> [none |-> TRUE], seen |-> NoStore, printed |-> text]

\* A quit key that leaves the loop running.
AfterQuitPolls == "poll"

\* break: the loop, the function and its thread end.
AfterQuit == "stopped"

\* One turn of the loop in which kbhit() is true and getch() returns k.
kb_getch(k) ==
    /\ kb_pc = "poll"
    /\ LET key == DecodeLower(k) IN
        CASE key = "raise" ->
                \* the exception leaves monitor_keyboard: its thread ends
                /\ kb_pc' = "dead"
                /\ UNCHANGED <<kb_tmp, exchange>>
          [] key = "s" ->
                /\ kb_tmp' = is_safe_status
                /\ kb_pc' = "store"
                /\ UNCHANGED exchange
          [] key = "q" ->
                /\ kb_pc' = AfterQuit
                /\ exchange' = KeyLine("key_quit",
                                 "Keyboard monitoring stopped. Server is still running.")
                /\ UNCHANGED kb_tmp
          [] OTHER ->
                UNCHANGED <<kb_pc, kb_tmp, exchange>>
    /\ UNCHANGED <<listener, connected_status, is_safe_status, threads, clock,
                   safe_src, conn_src>>

kb_store ==
    /\ kb_pc = "store"
    /\ is_safe_status' = ToggleValue(kb_tmp)
    /\ safe_src' = [by |-> "key", arg |-> kb_tmp]
    /\ kb_pc' = "status"
    /\ UNCHANGED <<kb_input, listener, connected_status, threads, exchange, kb_tmp,
                   clock, conn_src>>

kb_status ==
    /\ kb_pc = "status"
    \* (history) seen: the value the toggle that prints this line had loaded
    /\ exchange' = [KeyLine("key_status", StatusText(is_safe_status))
                        EXCEPT !.seen = [by |-> "key", arg |-> kb_tmp]]
    /\ kb_pc' = "poll"
    /\ kb_tmp' = FALSE
    /\ UNCHANGED <<kb_input, listener, connected_status, is_safe_status, threads,
                   clock, safe_src, conn_src>>

\* A key typed while no key is waiting, read by the next turn of the loop.
kb_typed(k) ==
    /\ kb_buf = <<>>
    /\ kb_getch(k)
    /\ UNCHANGED kb_input

\* A key typed: the console queues it behind the keys not yet read.
key_press(k) ==
    /\ kb_pressed < MaxPressed
    /\ kb_buf' = Append(kb_buf, k)
    /\ kb_pressed' = kb_pressed + 1
    /\ UNCHANGED <<listener, connected_status, is_safe_status, threads, exchange,
                   kb_pc, kb_tmp, clock, safe_src, conn_src>>

\* A getch() that returns the key typed last.
NewestKey(buf) == buf[Len(buf)]

\* getch() returns the key that has waited longest.
OldestKey(buf) == Head(buf)

\* One turn of the loop with a key waiting: kbhit() is true, getch() takes it.
kb_read ==
    /\ kb_buf # <<>>
    /\ kb_getch(OldestKey(kb_buf))
    /\ kb_buf' = Tail(kb_buf)
    /\ UNCHANGED kb_pressed

(***************************************************************************)
(* The system.                                                             *)
(***************************************************************************)
Next ==
    \/ \E ctid \in TransactionIds : get_safety_status(ctid)
    \/ \E cid \in ClientIds, ctid \in TransactionIds : get_connected(cid, ctid)
    \/ \E c \in BOOLEAN, cid \in ClientIds, ctid \in TransactionIds : connect_to_device(c, cid, ctid)
    \/ \E th \in BagToSet(threads) : connect_to_device_return(th)
    \/ \E x \in BOOLEAN, cid \in ClientIds, ctid \in TransactionIds : set_safety_status(x, cid, ctid)
    \/ \E th \in BagToSet(threads) : set_safety_status_return(th)
    \/ \E op \in StaticOps, ctid \in TransactionIds : static_read(op, ctid)
    \/ \E op \in ManagementOps, ctid \in ManagementIds : management(op, ctid)
    \/ \E data \in Payloads, addr \in Addrs : start_discovery_listener(data, addr, "none")
    \/ \E k \in Keys : kb_typed(k)
    \/ kb_store
    \/ kb_status

Spec == Init /\ [][Next]_vars

(***************************************************************************)
(* The validated endpoints alone, one request at a time, over every pair   *)
(* of the boundary values.                                                 *)
(***************************************************************************)
NextValidation ==
    \/ \E cid, ctid \in IdSamples : get_connected(cid, ctid)
    \/ \E c \in BOOLEAN, cid, ctid \in IdSamples :
            threads = EmptyBag /\ connect_to_device(c, cid, ctid)
    \/ \E th \in BagToSet(threads) : connect_to_device_return(th)
    \/ \E x \in BOOLEAN, cid, ctid \in IdSamples :
            threads = EmptyBag /\ set_safety_status(x, cid, ctid)
    \/ \E th \in BagToSet(threads) : set_safety_status_return(th)

ValidationSpec == Init /\ [][NextValidation]_vars

(***************************************************************************)
(* The system with faults: datagrams whose receive or send raises, and PUT *)
(* handlers whose print raises.                                            *)
(***************************************************************************)
NextFault ==
    \/ \E data \in Payloads, addr \in Addrs, fault \in DatagramFaults :
            start_discovery_listener(data, addr, fault)
    \/ \E ctid \in {Missing, One} : get_safety_status(ctid)
    \/ \E c \in BOOLEAN, cid \in ClientIds : connect_to_device(c, cid, One)
    \/ \E th \in BagToSet(threads) : connect_to_device_return(th)
    \/ \E x \in BOOLEAN, cid \in ClientIds : set_safety_status(x, cid, MaxId)
    \/ \E th \in BagToSet(threads) : set_safety_status_return(th)
    \/ \E th \in BagToSet(threads), sent \in Deliveries : generic_exception_handler(th, sent)

FaultSpec == Init /\ [][NextFault]_vars

(***************************************************************************)
(* The keyboard monitor with its console queue: keys are typed at any time *)
(* and wait until getch() takes them.  No quit key and no undecodable key  *)
(* is typed.  The loop is a thread of its own and keeps being scheduled.   *)
(***************************************************************************)
ToggleKeys == {"s", "S", "x"}

NextKeyboard ==
    \/ \E k \in ToggleKeys : key_press(k)
    \/ kb_read
    \/ kb_store
    \/ kb_status
    \/ get_safety_status(Missing)

KeyboardSpec ==
    Init /\ [][NextKeyboard]_vars /\ WF_vars(kb_read) /\ WF_vars(kb_store) /\ WF_vars(kb_status)

(***************************************************************************)
(* Writers whose value can be told from their request: a client that sends *)
(* true under ClientTransactionID 1 and false under 4294967295.            *)
(***************************************************************************)
ValueSent(ctid) == ctid = One

NextStatus ==
    \/ \E cid \in ClientIds, ctid \in {One, MaxId} :
            connect_to_device(ValueSent(ctid), cid, ctid)
    \/ \E th \in BagToSet(threads) : connect_to_device_return(th)
    \/ \E cid \in ClientIds, ctid \in {One, MaxId} :
            set_safety_status(ValueSent(ctid), cid, ctid)
    \/ \E th \in BagToSet(threads) : set_safety_status_return(th)
    \/ kb_typed("s")
    \/ kb_store
    \/ kb_status

StatusSpec == Init /\ [][NextStatus]_vars

(***************************************************************************)
(* Vocabulary of the properties.                                           *)
(***************************************************************************)
\* The nine operations of the Device API.
DeviceOps == {"issafe", "connected", "setconnected", "setissafe"} \cup StaticOps

\* The operations whose identifiers are validated.
ValidatedOps == {"connected", "setconnected", "setissafe"}

\* p is an integer in [1, 4294967295], said on the limbs.
InUint32(p) ==
    /\ p.kind = "int"
    /\ \/ p.hi = 0 /\ p.lo >= 1
       \/ p.hi >= 1 /\ p.hi <= 65535

\* What identifies the exchange last answered.
ExchangeKey == <<exchange.op, exchange.cid, exchange.ctid, exchange.status>>

InFlight(op) == {th \in BagToSet(threads) : th.op = op}

(***************************************************************************)
(* C1.  Once SetSafe(IsSafe=x) has stored x, an IsSafe call that reads     *)
(* is_safe_status while that store is the latest one (no other SetSafe and *)
(* no keyboard toggle took effect in between) answers Value = x; this      *)
(* covers every IsSafe call that starts after the SetSafe request has      *)
(* completed, under every interleaving with SetConnected, GetConnected,    *)
(* discovery and management traffic.                                       *)
(***************************************************************************)
C1_SetSafeThenIsSafe ==
    (exchange.op = "issafe" /\ exchange.seen.by = "api")
        => (exchange.status = 200 /\ exchange.body.Value = exchange.seen.arg)

\* IsSafe answered true after SetSafe(true) had returned, with a
\* SetConnected request still in progress.
C1_Witness ==
    /\ exchange.op = "issafe"
    /\ exchange.seen = [by |-> "api", arg |-> TRUE]
    /\ exchange.body.Value = TRUE
    /\ safe_src = [by |-> "api", arg |-> TRUE]
    /\ InFlight("setissafe") = {}
    /\ InFlight("setconnected") # {}

(***************************************************************************)
(* C2.  Every successful response of a Device API operation echoes the     *)
(* ClientTransactionID of its own request, and 0 when a simple read        *)
(* omitted it, whatever other requests are in progress.                    *)
(***************************************************************************)
C2_TransactionEcho ==
    (exchange.op \in DeviceOps /\ exchange.status = 200)
        => exchange.body.ClientTransactionID =
              (IF exchange.ctid = Missing THEN Zero ELSE exchange.ctid)

\* SetSafe answered with its own id 4294967295 while a request with id 1
\* was in progress.
C2_Witness ==
    /\ exchange.op = "setissafe"
    /\ exchange.status = 200
    /\ exchange.ctid = MaxId
    /\ exchange.body.ClientTransactionID = MaxId
    /\ \E th \in BagToSet(threads) : th.ctid = One

(***************************************************************************)
(* C3.  A SetConnected or SetSafe request whose ClientID or                *)
(* ClientTransactionID is missing or outside [1, 4294967295] is answered   *)
(* with a client error (HTTP 422), never reaches the handler, and the step *)
(* that answers it changes neither connected_status nor is_safe_status.    *)
(***************************************************************************)
C3_RejectedLeavesState ==
    /\ [](\A th \in BagToSet(threads) : InUint32(th.cid) /\ InUint32(th.ctid))
    /\ []((exchange.op \in {"setconnected", "setissafe"}
            /\ ~(InUint32(exchange.cid) /\ InUint32(exchange.ctid)))
              => exchange.status = 422)
    /\ [][(exchange'.status = 422 /\ ExchangeKey' # ExchangeKey)
              => (connected_status' = connected_status
                  /\ is_safe_status' = is_safe_status)]_<<connected_status, is_safe_status,
                                                          ExchangeKey>>

\* SetConnected with ClientID=0 was rejected while both flags were set.
C3_Witness ==
    /\ exchange.op = "setconnected"
    /\ exchange.cid = Zero
    /\ exchange.status = 422
    /\ connected_status
    /\ is_safe_status

(***************************************************************************)
(* C4.  GetConnected, SetConnected and SetSafe answer with success exactly *)
(* when ClientID and ClientTransactionID are both integers in              *)
(* [1, 4294967295]; otherwise they answer HTTP 422, a client error whose   *)
(* body carries no ErrorNumber.                                            *)
(***************************************************************************)
C4_ValidationBounds ==
    /\ \A th \in BagToSet(threads) : InUint32(th.cid) /\ InUint32(th.ctid)
    /\ exchange.op \in ValidatedOps =>
          /\ exchange.status \in {200, 422}
          /\ exchange.status = 200 <=> (InUint32(exchange.cid) /\ InUint32(exchange.ctid))
          /\ exchange.status = 422 => "ErrorNumber" \notin DOMAIN exchange.body

\* SetConnected accepted with ClientID = 4294967295.
C4_Witness ==
    /\ exchange.op = "setconnected"
    /\ exchange.status = 200
    /\ exchange.cid = MaxId
    /\ exchange.ctid = One

(***************************************************************************)
(* C5.  When the keyboard monitor processes the toggle key and loads       *)
(* is_safe_status = v, an IsSafe call that reads the flag while the        *)
(* toggle's store is the latest one answers Value = not v.                 *)
(***************************************************************************)
C5_ToggleObserved ==
    (exchange.op = "issafe" /\ exchange.seen.by = "key")
        => exchange.body.Value = ~exchange.seen.arg

\* IsSafe answered true after a toggle that had loaded false.
C5_Witness ==
    /\ exchange.op = "issafe"
    /\ exchange.seen = [by |-> "key", arg |-> FALSE]
    /\ exchange.body.Value = TRUE
    /\ kb_pc = "poll"

(***************************************************************************)
(* C6.  The keyboard toggle is atomic with respect to SetSafe: the value   *)
(* it stores is the negation of the value is_safe_status holds             *)
(* immediately before the store.                                           *)
(***************************************************************************)
C6_ToggleAtomic ==
    [][(kb_pc = "store" /\ kb_pc' = "status")
          => is_safe_status' = ~is_safe_status]_<<kb_pc, is_safe_status>>

(***************************************************************************)
(* C7.  Concurrent SetSafe requests are last-write-wins: while the latest  *)
(* store to is_safe_status is a SetSafe store, the flag holds the value of *)
(* that request; and two IsSafe answers in a row with no store between     *)
(* them agree, so an answer never goes back to an older value.             *)
(***************************************************************************)
C7_LastWriteWins ==
    /\ [](safe_src.by = "api" => is_safe_status = safe_src.arg)
    /\ []((exchange.op = "issafe" /\ exchange.seen = safe_src)
            => exchange.body.Value = is_safe_status)
    /\ [][(exchange.op = "issafe" /\ exchange'.op = "issafe"
            /\ exchange.seen = safe_src /\ safe_src' = safe_src)
              => exchange'.body.Value = exchange.body.Value]_<<ExchangeKey, safe_src>>

\* Two SetSafe requests in progress at once and the keyboard idle: an
\* IsSafe call was answered false from the store of SetSafe(false), and
\* SetSafe(true) has stored since.
C7_Witness ==
    /\ \E a, b \in InFlight("setissafe") : a.ctid # b.ctid
    /\ kb_pc = "poll"
    /\ exchange.op = "issafe"
    /\ exchange.seen = [by |-> "api", arg |-> FALSE]
    /\ exchange.body.Value = FALSE
    /\ safe_src = [by |-> "api", arg |-> TRUE]
    /\ is_safe_status

(***************************************************************************)
(* C8.  Both flags start false: GetConnected answers false as long as no   *)
(* SetConnected has stored, IsSafe answers false as long as neither a      *)
(* SetSafe nor a toggle has stored.                                        *)
(***************************************************************************)
C8_InitialState ==
    /\ conn_src.by = "init" => connected_status = FALSE
    /\ safe_src.by = "init" => is_safe_status = FALSE
    /\ (exchange.op = "connected" /\ exchange.status = 200 /\ exchange.seen.by = "init")
          => exchange.body.Value = FALSE
    /\ (exchange.op = "issafe" /\ exchange.seen.by = "init")
          => exchange.body.Value = FALSE

\* GetConnected(ClientID=1, ClientTransactionID=1) answered false before any
\* SetConnected, after SetSafe had already stored true.
C8_Witness ==
    /\ exchange.op = "connected"
    /\ exchange.status = 200
    /\ exchange.cid = One
    /\ exchange.ctid = One
    /\ exchange.seen.by = "init"
    /\ exchange.body.Value = FALSE
    /\ is_safe_status

(***************************************************************************)
(* C9.  Every successful response of the Device API carries ErrorNumber =  *)
(* 0 and ErrorMessage = "".                                                *)
(***************************************************************************)
C9_ErrorPairEverywhere ==
    (exchange.op \in DeviceOps /\ exchange.status = 200)
        => /\ {"ErrorNumber", "ErrorMessage"} \subseteq DOMAIN exchange.body
           /\ exchange.body.ErrorNumber = 0
           /\ exchange.body.ErrorMessage = ""

(***************************************************************************)
(* C10.  Every datagram on the discovery port, whatever its payload, is    *)
(* answered to its sender with the same seven fields and values, whatever  *)
(* connected_status and is_safe_status are.                                *)
(***************************************************************************)
C10_DiscoveryReply ==
    exchange.op = "discovery" =>
        /\ exchange.to = exchange.peer
        /\ exchange.body =
              [AlpacaPort |-> 11111, Manufacturer |-> "Julian Brendlin",
               ManufacturerVersion |-> "1.0.0", DeviceName |-> "CloudWatcher",
               DeviceType |-> "safetymonitor", DeviceNumber |-> 0,
               UniqueID |-> "cloudwatcher.safetymonitor.001"]

\* A datagram that is no discovery query, answered while both flags were set.
C10_Witness ==
    /\ exchange.op = "discovery"
    /\ exchange.data = "{not json"
    /\ exchange.to = "10.0.0.3:50001"
    /\ exchange.body.DeviceType = "safetymonitor"
    /\ connected_status
    /\ is_safe_status

(***************************************************************************)
(* C11.  A receive or send error on one datagram never ends the discovery  *)
(* listener: it is receiving again after every turn of its loop, a further *)
(* datagram can always be taken, and every datagram received and sent      *)
(* without error is answered to its sender with the discovery reply.       *)
(***************************************************************************)
C11_DiscoverySurvivesErrors ==
    /\ disc_pc = "recv"
    /\ ENABLED start_discovery_listener("alpacadiscovery1", "10.0.0.2:50000", "none")
    /\ (exchange.op = "discovery" /\ exchange.fault = "none")
          => (exchange.to = exchange.peer /\ exchange.body = DiscoveryResponse)

\* A datagram answered to its sender after the receive or the send of an
\* earlier datagram had raised.
C11_Witness ==
    /\ "discovery" \in faulted
    /\ exchange.op = "discovery"
    /\ exchange.fault = "none"
    /\ exchange.to = "10.0.0.2:50000"
    /\ disc_pc = "recv"

(***************************************************************************)
(* C12.  A request whose handler raises is answered with an error response *)
(* that carries ErrorNumber = 1, a ServerTransactionID and an              *)
(* ErrorMessage.                                                           *)
(***************************************************************************)
C12_FaultAnswered ==
    (exchange.peer = "http" /\ exchange.status = 500)
        => /\ {"ErrorNumber", "ErrorMessage", "ServerTransactionID"}
                 \subseteq DOMAIN exchange.body
           /\ exchange.body.ErrorNumber = 1

(***************************************************************************)
(* C13.  Every response that has a ClientTransactionID carries the one its *)
(* caller supplied, the management endpoints and the error response of the *)
(* exception handler included.                                             *)
(***************************************************************************)
C13_EchoEverywhere ==
    (exchange.peer = "http" /\ exchange.ctid # Missing
       /\ "ClientTransactionID" \in DOMAIN exchange.body)
        => exchange.body.ClientTransactionID = exchange.ctid

(***************************************************************************)
(* C14.  Every response that has a ServerTransactionID carries the         *)
(* wall-clock second at which it was built, never a fixed constant.        *)
(***************************************************************************)
C14_FreshServerTransactionID ==
    (exchange.peer = "http" /\ "ServerTransactionID" \in DOMAIN exchange.body)
        => exchange.body.ServerTransactionID = clock

\* The two flags.
flags == <<connected_status, is_safe_status>>

\* This step is a handler of op passing validation and storing its flag.
Accepted(op) ==
    \E th \in BagToSet(threads') :
        th.op = op /\ CopiesIn(th, threads') > CopiesIn(th, threads)

(***************************************************************************)
(* C15.  The quit key stops the keyboard monitor and nothing else: the     *)
(* step that processes it changes neither flag, afterwards the monitor     *)
(* stays stopped and is_safe_status changes by SetSafe only, and IsSafe,   *)
(* GetConnected, SetSafe, SetConnected and discovery can still be served.  *)
(***************************************************************************)
C15_QuitStopsOnlyKeyboard ==
    /\ [](exchange.op = "key_quit" => kb_pc = "stopped")
    /\ [][(kb_pc # "stopped" /\ kb_pc' = "stopped") => flags' = flags]_<<kb_pc, flags>>
    /\ [][kb_pc = "stopped" =>
            /\ kb_pc' = "stopped"
            /\ is_safe_status' # is_safe_status => safe_src'.by = "api"]_<<kb_pc, is_safe_status>>
    /\ [](kb_pc = "stopped" =>
            /\ ENABLED get_safety_status(Missing)
            /\ ENABLED get_connected(One, One)
            /\ ENABLED start_discovery_listener("", "10.0.0.2:50000", "none")
            /\ BagCardinality(threads) < MaxInFlight =>
                  /\ ENABLED set_safety_status(TRUE, One, One)
                  /\ ENABLED connect_to_device(TRUE, One, One))

\* After the quit key: SetSafe(true) stored, and IsSafe answered true.
C15_Witness ==
    /\ kb_pc = "stopped"
    /\ exchange.op = "issafe"
    /\ exchange.seen = [by |-> "api", arg |-> TRUE]
    /\ exchange.body.Value = TRUE
    /\ connected_status

(***************************************************************************)
(* C16.  A key that cannot be read never terminates the keyboard monitor.  *)
(***************************************************************************)
C16_InputFaultIdles == kb_pc # "dead"

(***************************************************************************)
(* C17.  The three management endpoints always answer HTTP 200 with the    *)
(* same Value: the list [1], the one device description, the one-entry     *)
(* list of configured devices, in every reachable state; and the step that *)
(* answers one changes neither flag.                                       *)
(***************************************************************************)
C17_ManagementFixed ==
    /\ [](exchange.op \in ManagementOps =>
            /\ exchange.status = 200
            /\ CASE exchange.op = "apiversions" -> exchange.body.Value = <<1>>
                 [] exchange.op = "mgmt_description" ->
                      exchange.body.Value =
                        [DeviceName |-> "CloudWatcher", DeviceType |-> "safetymonitor",
                         DeviceNumber |-> 0, UniqueID |-> "cloudwatcher.safetymonitor.001",
                         Manufacturer |-> "Julian Brendlin", DriverVersion |-> "1.0.0",
                         Location |-> "My Observatory"]
                 [] exchange.op = "configureddevices" ->
                      exchange.body.Value =
                        <<[DeviceName |-> "CloudWatcher", DeviceType |-> "safetymonitor",
                           DeviceNumber |-> 0,
                           UniqueID |-> "cloudwatcher.safetymonitor.001"]>>)
    /\ [][(exchange'.op \in ManagementOps /\ ExchangeKey' # ExchangeKey)
              => flags' = flags]_<<flags, ExchangeKey>>

\* The configured devices listed while connected and safe, after other traffic.
C17_Witness ==
    /\ exchange.op = "configureddevices"
    /\ exchange.ctid = One
    /\ Len(exchange.body.Value) = 1
    /\ connected_status
    /\ is_safe_status
    /\ threads # EmptyBag

(***************************************************************************)
(* C18.  The flags are independent: an accepted SetConnected(c) sets       *)
(* connected_status to c and leaves is_safe_status as it was; an accepted  *)
(* SetSafe(x) sets is_safe_status to x and a keyboard toggle stores        *)
(* is_safe_status, and both leave connected_status as it was.              *)
(***************************************************************************)
C18_FlagsIndependent ==
    /\ [](conn_src.by = "api" => connected_status = conn_src.arg)
    /\ [][(Accepted("setconnected") =>
              (connected_status' = conn_src'.arg /\ is_safe_status' = is_safe_status))
           /\ (Accepted("setissafe") =>
              (is_safe_status' = safe_src'.arg /\ connected_status' = connected_status))
           /\ ((kb_pc = "store" /\ kb_pc' = "status") =>
              connected_status' = connected_status)
           /\ (connected_status' # connected_status => is_safe_status' = is_safe_status)
          ]_<<flags, threads, kb_pc>>

\* Connected and unsafe: SetConnected(true) and SetSafe(false) both stored,
\* after a toggle had made the monitor safe.
C18_Witness ==
    /\ connected_status
    /\ ~is_safe_status
    /\ conn_src = [by |-> "api", arg |-> TRUE]
    /\ safe_src = [by |-> "api", arg |-> FALSE]
    /\ exchange.op = "key_status"
    /\ exchange.printed = "SAFE"

(***************************************************************************)
(* C19.  The status line of a write names the value that write stored:     *)
(* SetSafe(x) prints x, SetConnected(c) prints c, and the toggle prints    *)
(* the negation of the value it loaded, whatever other writers do.         *)
(***************************************************************************)
C19_StatusNamesOwnWrite ==
    /\ (exchange.op = "setissafe" /\ exchange.status = 200)
          => exchange.printed = StatusText(ValueSent(exchange.ctid))
    /\ (exchange.op = "setconnected" /\ exchange.status = 200)
          => exchange.printed = ConnectionText(ValueSent(exchange.ctid))
    /\ exchange.op = "key_status"
          => exchange.printed = StatusText(~exchange.seen.arg)

(***************************************************************************)
(* C20.  With no quit key and no undecodable key: every key typed is       *)
(* eventually taken by the loop and the loop is back at its poll; keys are *)
(* taken oldest first, one per turn, and a toggle key, and only a toggle   *)
(* key, starts a toggle; and without SetSafe every toggle flips            *)
(* is_safe_status, so k toggles flip it k times.                           *)
(***************************************************************************)
C20_KeysAppliedInOrder ==
    /\ \A n \in 1..MaxPressed :
          (kb_pressed >= n) ~> (kb_pressed - Len(kb_buf) >= n /\ kb_pc = "poll")
    /\ [][Len(kb_buf') < Len(kb_buf) =>
            (/\ kb_pc = "poll"
             /\ kb_buf' = Tail(kb_buf)
             /\ (kb_pc' = "store") <=> (Head(kb_buf) \in {"s", "S"})
             /\ (kb_pc' = "poll") <=> (Head(kb_buf) \notin {"s", "S"}))]_<<kb_buf, kb_pc>>
    /\ [][(kb_pc = "store" /\ kb_pc' = "status")
            => is_safe_status' = ~is_safe_status]_<<kb_pc, is_safe_status, safe_src>>

\* Three keys typed and all of them taken; the last toggle loaded false and
\* IsSafe has answered true since.
C20_Witness ==
    /\ kb_pressed = MaxPressed
    /\ kb_buf = <<>>
    /\ kb_pc = "poll"
    /\ exchange.op = "issafe"
    /\ exchange.seen = [by |-> "key", arg |-> FALSE]
    /\ exchange.body.Value = TRUE

(***************************************************************************)
(* C21.  Only three steps change the flags: is_safe_status changes in the  *)
(* step in which a SetSafe request is accepted or the keyboard toggle      *)
(* stores, connected_status in the step in which a SetConnected request is *)
(* accepted.  Every step that answers a request or a datagram or prints a  *)
(* keyboard line leaves both flags as they were.                           *)
(***************************************************************************)
C21_OnlyThreeWriters ==
    [][(is_safe_status' # is_safe_status =>
            (Accepted("setissafe") \/ (kb_pc = "store" /\ kb_pc' = "status")))
       /\ (connected_status' # connected_status => Accepted("setconnected"))
       /\ (ExchangeKey' # ExchangeKey => flags' = flags)
      ]_<<flags, threads, kb_pc, ExchangeKey>>

\* SupportedActions answered with both flags set and a SetSafe request still
\* in progress: the flags are as the three writers left them.
C21_Witness ==
    /\ exchange.op = "supportedactions"
    /\ exchange.status = 200
    /\ connected_status
    /\ is_safe_status
    /\ conn_src.by = "api"
    /\ safe_src.by = "key"
    /\ InFlight("setissafe") # {}

\* The value a store left in is_safe_status.
StoredValue(src) == IF src.by = "key" THEN ~src.arg ELSE src.arg

(***************************************************************************)
(* C22.  No operation looks at connected_status: IsSafe always answers 200 *)
(* with the stored is_safe_status, the static reads always answer 200 with *)
(* their fixed values, and SetSafe is accepted whenever its identifiers    *)
(* are valid, in every reachable state, those with connected_status false  *)
(* included.                                                               *)
(***************************************************************************)
C22_NotGatedByConnection ==
    /\ exchange.op = "issafe" =>
          /\ exchange.status = 200
          /\ DOMAIN exchange.body = {"Value", "ClientTransactionID", "ServerTransactionID"}
          /\ exchange.body.Value = StoredValue(exchange.seen)
    /\ exchange.op \in StaticOps =>
          /\ exchange.status = 200
          /\ CASE exchange.op = "description" ->
                    exchange.body.Value = "CloudWatcher SafetyMonitor from Julian Brendlin"
               [] exchange.op = "driverinfo" ->
                    exchange.body.Value = "CloudWatcher v1.0.0 by Julian Brendlin"
               [] exchange.op = "driverversion" -> exchange.body.Value = "1.0.0"
               [] exchange.op = "name" -> exchange.body.Value = "CloudWatcher"
               [] exchange.op = "supportedactions" ->
                    exchange.body.Value = <<"Action1", "Action2", "Action3">>
    /\ exchange.op = "setissafe" =>
          (exchange.status = 200 <=> (InUint32(exchange.cid) /\ InUint32(exchange.ctid)))
    /\ BagCardinality(threads) < MaxInFlight =>
          /\ ENABLED set_safety_status(TRUE, One, One)
          /\ ENABLED set_safety_status(FALSE, One, One)

\* IsSafe answered true on a device that has never been connected.
C22_Witness ==
    /\ exchange.op = "issafe"
    /\ exchange.status = 200
    /\ exchange.body.Value = TRUE
    /\ conn_src.by = "init"
    /\ ~connected_status
    /\ is_safe_status

====
